---- MODULE Spec2Model ----
(***************************************************************************)
(* Model of pre_commit_python_eol/check_eol.py: the release model          *)
(* (PythonRelease, is_eol), the dataset loader                             *)
(* (_get_cached_release_cycle), the specifier repair (get_fixed_spec),     *)
(* the per-manifest check (check_python_support) and the loop of main.     *)
(*                                                                         *)
(* Strings are sequences of one-character strings, so that parsing         *)
(* (version keys, dates, requires-python) and formatting (the repaired     *)
(* specifier) are computed, not assumed.  Versions are final releases      *)
(* N(.N)* as the release-cycle dataset holds them ("3.8", "3.10").         *)
(***************************************************************************)
EXTENDS Integers, Sequences, FiniteSets, TLC

VARIABLES
    cache_json,       \* contents of cached_release_cycle.json: sequence of entries
    utc_today,        \* dt.datetime.now(dt.timezone.utc).date() as <<y, m, d>>
    use_system_date,  \* not args.cache_only
    fix,              \* args.fix
    nchecked,         \* number of args.filenames the loop of main has taken
    ec,               \* main's exit code
    printed,          \* number of lines main has printed
    nfailed,          \* number of files whose check raised any exception
    pc,               \* "loop", "done" (main returned ec), "raised" (exception left main)
    last              \* what the latest call of check_python_support did

vars == <<cache_json, utc_today, use_system_date, fix, nchecked, ec, printed,
          nfailed, pc, last>>

(***************************************************************************)
(* Bounds of the model.                                                    *)
(***************************************************************************)
MaxReleases == 2
MaxFiles == 2

(***************************************************************************)
(* str / int primitives.                                                   *)
(***************************************************************************)
DigitChars == <<"0", "1", "2", "3", "4", "5", "6", "7", "8", "9">>

IsDigit(c) == \E d \in 1..Len(DigitChars) : DigitChars[d] = c

DigitVal(c) == (CHOOSE d \in 1..Len(DigitChars) : DigitChars[d] = c) - 1

RECURSIVE ParseInt(_)
ParseInt(s) ==
    IF s = <<>> THEN 0
    ELSE ParseInt(SubSeq(s, 1, Len(s) - 1)) * 10 + DigitVal(s[Len(s)])

RECURSIVE FormatInt(_)
FormatInt(n) ==
    IF n < 10 THEN <<DigitChars[n + 1]>>
    ELSE FormatInt(n \div 10) \o <<DigitChars[(n % 10) + 1]>>

RECURSIVE Split(_, _)
Split(s, sep) ==
    IF s = <<>> THEN << <<>> >>
    ELSE LET rest == Split(Tail(s), sep)
         IN  IF Head(s) = sep THEN << <<>> >> \o rest
             ELSE << <<Head(s)>> \o Head(rest) >> \o Tail(rest)

RECURSIVE Strip(_)
Strip(s) ==
    IF s = <<>> THEN s
    ELSE IF Head(s) = " " THEN Strip(Tail(s))
    ELSE IF s[Len(s)] = " " THEN Strip(SubSeq(s, 1, Len(s) - 1))
    ELSE s

RECURSIVE TupleLT(_, _)
TupleLT(a, b) ==
    IF a = <<>> THEN b # <<>>
    ELSE IF b = <<>> THEN FALSE
    ELSE IF Head(a) # Head(b) THEN Head(a) < Head(b)
    ELSE TupleLT(Tail(a), Tail(b))

(***************************************************************************)
(* packaging.version.Version: the release segment, compared with trailing  *)
(* zeros dropped.                                                          *)
(***************************************************************************)
Version(ver) ==
    LET parts == Split(ver, ".")
    IN  [k \in 1..Len(parts) |-> ParseInt(parts[k])]

RECURSIVE StripZeros(_)
StripZeros(release) ==
    IF release # <<>> /\ release[Len(release)] = 0
    THEN StripZeros(SubSeq(release, 1, Len(release) - 1))
    ELSE release

VersionLT(a, b) == TupleLT(StripZeros(a), StripZeros(b))

VersionEQ(a, b) == StripZeros(a) = StripZeros(b)

VersionLE(a, b) == VersionLT(a, b) \/ VersionEQ(a, b)

Major(v) == IF Len(v) >= 1 THEN v[1] ELSE 0

Minor(v) == IF Len(v) >= 2 THEN v[2] ELSE 0

(***************************************************************************)
(* ReleasePhase, _parse_eol_date, PythonRelease.                           *)
(***************************************************************************)
ReleasePhase == {"feature", "prerelease", "bugfix", "security", "end-of-life"}

NoDate == <<>>

_parse_eol_date(date_str) ==
    LET parts == Split(date_str, "-")
    IN  IF Len(parts) = 3
        THEN [raised |-> "none",
              value |-> <<ParseInt(parts[1]), ParseInt(parts[2]), ParseInt(parts[3])>>]
        ELSE IF Len(parts) = 2
        THEN [raised |-> "none",
              value |-> <<ParseInt(parts[1]), ParseInt(parts[2]), 1>>]
        ELSE [raised |-> "ValueError", value |-> NoDate]

DateLE(a, b) == ~TupleLT(b, a)

NoRelease == [python_ver |-> <<>>, status |-> "", end_of_life |-> NoDate]

from_json(ver, metadata) ==
    IF metadata.status \notin ReleasePhase
    THEN [raised |-> "ValueError", value |-> NoRelease]
    ELSE LET d == _parse_eol_date(metadata.end_of_life)
         IN  IF d.raised # "none"
             THEN [raised |-> d.raised, value |-> NoRelease]
             ELSE [raised |-> "none",
                   value |-> [python_ver |-> Version(ver),
                              status |-> metadata.status,
                              end_of_life |-> d.value]]

\* Variant of is_eol with the date test strict (an off-by-one-day slip).
is_eol_strict(self, use_date, today) ==
    IF self.status = "end-of-life" THEN TRUE
    ELSE IF use_date /\ TupleLT(self.end_of_life, today) THEN TRUE
    ELSE FALSE

is_eol(self, use_date, today) ==
    IF self.status = "end-of-life" THEN TRUE
    ELSE IF use_date /\ DateLE(self.end_of_life, today) THEN TRUE
    ELSE FALSE

(***************************************************************************)
(* sorted(..., key=attrgetter("python_ver")): a stable sort; with          *)
(* reverse=True equal keys keep their original order as well.              *)
(***************************************************************************)
\* Variant of the loader's sort that trusts the order of the JSON file.
SortedDescending_trusting(rs) == rs

RECURSIVE SortedDescending(_)
SortedDescending(rs) ==
    IF rs = <<>> THEN <<>>
    ELSE LET t == SortedDescending(SubSeq(rs, 1, Len(rs) - 1))
             x == rs[Len(rs)]
             k == Cardinality({j \in 1..Len(t) : VersionLE(x.python_ver, t[j].python_ver)})
         IN  SubSeq(t, 1, k) \o <<x>> \o SubSeq(t, k + 1, Len(t))

\* Variant of the overlap's sort that leaves the loader's order in place.
SortedAscending_missing(rs) == rs

RECURSIVE SortedAscending(_)
SortedAscending(rs) ==
    IF rs = <<>> THEN <<>>
    ELSE LET t == SortedAscending(SubSeq(rs, 1, Len(rs) - 1))
             x == rs[Len(rs)]
             k == Cardinality({j \in 1..Len(t) : VersionLE(t[j].python_ver, x.python_ver)})
         IN  SubSeq(t, 1, k) \o <<x>> \o SubSeq(t, k + 1, Len(t))

(***************************************************************************)
(* _get_cached_release_cycle: one PythonRelease per entry of the JSON      *)
(* object, in file order, then sorted by version, descending.  An entry    *)
(* that does not parse raises out of the whole load.                       *)
(***************************************************************************)
_get_cached_release_cycle(contents) ==
    LET parsed == [k \in 1..Len(contents) |-> from_json(contents[k].ver, contents[k])]
    IN  IF \E k \in 1..Len(parsed) : parsed[k].raised # "none"
        THEN [raised |-> "ValueError", value |-> <<>>]
        ELSE [raised |-> "none",
              value |-> SortedDescending([k \in 1..Len(parsed) |-> parsed[k].value])]

(***************************************************************************)
(* packaging.specifiers: SpecifierSet(str) is the set of the clauses       *)
(* between commas (blank ones dropped); a clause is an operator and a      *)
(* version, equal clauses being one element; a version is in the set when  *)
(* every clause contains it.                                               *)
(***************************************************************************)
Operators2 == {">=", "<=", "==", "!="}

Operators1 == {"<", ">"}

IsVersionString(s) ==
    /\ s # <<>>
    /\ \A k \in 1..Len(s) : IsDigit(s[k]) \/ s[k] = "."
    /\ \A p \in {Split(s, ".")[k] : k \in 1..Len(Split(s, "."))} : p # <<>>

NoSpecifier == [operator |-> "", version |-> <<>>]

Specifier(clause) ==
    LET c == Strip(clause)
        two == IF Len(c) >= 2 THEN c[1] \o c[2] ELSE ""
        one == IF Len(c) >= 1 THEN c[1] ELSE ""
        op == IF two \in Operators2 THEN two
              ELSE IF one \in Operators1 THEN one ELSE ""
        v == Strip(SubSeq(c, (IF two \in Operators2 THEN 3 ELSE 2), Len(c)))
    IN  IF op = "" \/ ~IsVersionString(v)
        THEN [raised |-> "InvalidSpecifier", value |-> NoSpecifier]
        ELSE [raised |-> "none",
              value |-> [operator |-> op, version |-> StripZeros(Version(v))]]

SpecifierSet(str) ==
    LET parts == Split(str, ",")
        clauses == {Strip(parts[k]) : k \in 1..Len(parts)} \ {<<>>}
    IN  IF \E c \in clauses : Specifier(c).raised # "none"
        THEN [raised |-> "InvalidSpecifier", value |-> {}]
        ELSE [raised |-> "none", value |-> {Specifier(c).value : c \in clauses}]

SpecifierContains(spec, ver) ==
    CASE spec.operator = ">=" -> VersionLE(spec.version, ver)
      [] spec.operator = "<=" -> VersionLE(ver, spec.version)
      [] spec.operator = "==" -> VersionEQ(ver, spec.version)
      [] spec.operator = "!=" -> ~VersionEQ(ver, spec.version)
      [] spec.operator = "<"  -> VersionLT(ver, spec.version)
      [] spec.operator = ">"  -> VersionLT(spec.version, ver)

Contains(specs, ver) == \A spec \in specs : SpecifierContains(spec, ver)

(***************************************************************************)
(* get_fixed_spec.                                                         *)
(***************************************************************************)
NoString == <<>>

FixedSpec(cutoff, bump) ==
    <<">", "=">> \o FormatInt(Major(cutoff)) \o <<".">> \o FormatInt(Minor(cutoff) + bump)

\* Variant of get_fixed_spec that takes the first entry of the overlap as cutoff.
get_fixed_spec_first(specs, eol_supported) ==
    IF ~(Cardinality(specs) = 1) \/ (\E s \in specs : s.operator # ">=")
    THEN [raised |-> "UnsupportedFixError", value |-> NoString]
    ELSE [raised |-> "none", value |-> FixedSpec(eol_supported[1].python_ver, 1)]

\* Variant of get_fixed_spec that does not step to the next minor version.
get_fixed_spec_same_minor(specs, eol_supported) ==
    IF ~(Cardinality(specs) = 1) \/ (\E s \in specs : s.operator # ">=")
    THEN [raised |-> "UnsupportedFixError", value |-> NoString]
    ELSE [raised |-> "none",
          value |-> FixedSpec(eol_supported[Len(eol_supported)].python_ver, 0)]

\* Variant of get_fixed_spec without the test of the operator.
get_fixed_spec_any_operator(specs, eol_supported) ==
    IF ~(Cardinality(specs) = 1)
    THEN [raised |-> "UnsupportedFixError", value |-> NoString]
    ELSE [raised |-> "none",
          value |-> FixedSpec(eol_supported[Len(eol_supported)].python_ver, 1)]

\* Variant of get_fixed_spec that accepts any set holding a ">=" clause.
get_fixed_spec_any_clause(specs, eol_supported) ==
    IF ~(\E s \in specs : s.operator = ">=")
    THEN [raised |-> "UnsupportedFixError", value |-> NoString]
    ELSE [raised |-> "none",
          value |-> FixedSpec(eol_supported[Len(eol_supported)].python_ver, 1)]

get_fixed_spec(specs, eol_supported) ==
    IF ~(Cardinality(specs) = 1)
    THEN [raised |-> "UnsupportedFixError", value |-> NoString]
    ELSE LET spec == CHOOSE s \in specs : TRUE
         IN  IF ~(spec.operator = ">=")
             THEN [raised |-> "UnsupportedFixError", value |-> NoString]
             ELSE LET cutoff == eol_supported[Len(eol_supported)].python_ver
                      new_minimum == FormatInt(Major(cutoff)) \o <<".">>
                                     \o FormatInt(Minor(cutoff) + 1)
                  IN  [raised |-> "none", value |-> <<">", "=">> \o new_minimum]

(***************************************************************************)
(* check_python_support on the project table `contents` of one manifest.   *)
(* The result records the exception raised ("none" for a plain return),    *)
(* the contents of the manifest afterwards, and the values computed on the *)
(* way.                                                                    *)
(***************************************************************************)
Outcome(raised, contents, written, release_cycle, is_eol_calls, eol_supported, new_spec) ==
    [raised |-> raised, contents |-> contents, written |-> written,
     release_cycle |-> release_cycle, is_eol_calls |-> is_eol_calls,
     eol_supported |-> eol_supported, new_spec |-> new_spec]

\* Variant of the write that dumps a document holding the new specifier only.
WriteRequiresPython_alone(contents, new_spec) == ("requires-python" :> new_spec)

\* contents["project"]["requires-python"] = new_spec; tomlkit.dump(contents, f)
WriteRequiresPython(contents, new_spec) ==
    [contents EXCEPT !["requires-python"] = new_spec]

HasRequiresPython(contents) ==
    /\ "requires-python" \in DOMAIN contents
    /\ contents["requires-python"] # <<>>

check_python_support(contents, cache, use_date, do_fix, today) ==
    IF ~HasRequiresPython(contents)
    THEN Outcome("RequiresPythonNotFoundError", contents, FALSE, <<>>, {}, <<>>, NoString)
    ELSE
    LET package_spec == SpecifierSet(contents["requires-python"])
    IN  IF package_spec.raised # "none"
        THEN Outcome(package_spec.raised, contents, FALSE, <<>>, {}, <<>>, NoString)
        ELSE
    LET release_cycle == _get_cached_release_cycle(cache)
    IN  IF release_cycle.raised # "none"
        THEN Outcome(release_cycle.raised, contents, FALSE, <<>>, {}, <<>>, NoString)
        ELSE
    LET covered(r) == Contains(package_spec.value, r.python_ver)
        selected(r) == covered(r) /\ is_eol(r, use_date, today)
        calls == {[release |-> release_cycle.value[k],
                   result |-> is_eol(release_cycle.value[k], use_date, today)] :
                  k \in {j \in 1..Len(release_cycle.value) : covered(release_cycle.value[j])}}
        unsorted == SelectSeq(release_cycle.value, selected)
    IN  IF unsorted = <<>>
        THEN Outcome("none", contents, FALSE, release_cycle.value, calls, <<>>, NoString)
        ELSE
    LET eol_supported == SortedAscending(unsorted)
    IN  IF ~do_fix
        THEN Outcome("EOLPythonError", contents, FALSE, release_cycle.value, calls,
                     eol_supported, NoString)
        ELSE
    LET new_spec == get_fixed_spec(package_spec.value, eol_supported)
    IN  IF new_spec.raised # "none"
        THEN Outcome(new_spec.raised, contents, FALSE, release_cycle.value, calls,
                     eol_supported, NoString)
        ELSE Outcome("EOLPythonError",
                     WriteRequiresPython(contents, new_spec.value),
                     TRUE, release_cycle.value, calls, eol_supported, new_spec.value)

(***************************************************************************)
(* Inputs: the cached dataset, the clock, the command line, the manifests. *)
(***************************************************************************)
KeyStrings ==
    { <<"3", ".", "8">>, <<"3", ".", "8", ".", "0">>, <<"3", ".", "9">>,
      <<"3", ".", "1", "0">> }

DateYM == <<"2", "0", "2", "5", "-", "1", "0">>

DateYMD == <<"2", "0", "2", "6", "-", "1", "0", "-", "3", "1">>

Metadata ==
    { [status |-> "end-of-life", end_of_life |-> DateYMD],
      [status |-> "security", end_of_life |-> DateYM],
      [status |-> "unknown", end_of_life |-> DateYM] }

Entries ==
    { [ver |-> k, status |-> m.status, end_of_life |-> m.end_of_life] :
      k \in KeyStrings, m \in Metadata }

CacheContents ==
    { c \in UNION { [1..n -> Entries] : n \in 0..MaxReleases } :
        \A a, b \in 1..Len(c) : a # b => c[a].ver # c[b].ver }

Todays == { <<2025, 9, 30>>, <<2025, 10, 1>> }

RequiresPythonInputs ==
    { <<>>,
      <<" ">>,
      <<">", "=", "3", ".", "8">>,
      <<">", "=", "3", ".", "9">>,
      <<">", "=", "3", ".", "8", ",", "<", "4", ".", "0">>,
      <<"=", "=", "3", ".", "8">> }

Manifests(file) ==
    { ("name" :> file) } \cup
    { ("name" :> file) @@ ("requires-python" :> rp) : rp \in RequiresPythonInputs }

(***************************************************************************)
(* main.                                                                   *)
(***************************************************************************)
Init ==
    /\ cache_json \in CacheContents
    /\ utc_today \in Todays
    /\ use_system_date \in BOOLEAN
    /\ fix \in BOOLEAN
    /\ nchecked = 0
    /\ ec = 0
    /\ printed = 0
    /\ nfailed = 0
    /\ pc = "loop"
    /\ last = <<>>

\* One iteration of `for file in args.filenames`: the try and its handlers.
MainCheckFile ==
    /\ pc = "loop"
    /\ nchecked < MaxFiles
    /\ \E contents \in Manifests(nchecked + 1) :
         \E r \in {check_python_support(contents, cache_json, use_system_date, fix,
                                        utc_today)} :
             /\ last' = << [file |-> nchecked + 1, before |-> contents] @@ r >>
             /\ nchecked' = nchecked + 1
             /\ nfailed' = IF r.raised = "none" THEN nfailed ELSE nfailed + 1
             /\ IF r.raised \in {"EOLPythonError", "RequiresPythonNotFoundError"}
                THEN /\ printed' = printed + 1
                     /\ ec' = 1
                     /\ pc' = pc
                ELSE IF r.raised = "none"
                THEN UNCHANGED <<printed, ec, pc>>
                ELSE /\ pc' = "raised"
                     /\ UNCHANGED <<printed, ec>>
    /\ UNCHANGED <<cache_json, utc_today, use_system_date, fix>>

\* The loop is exhausted: `return ec`.
MainReturn ==
    /\ pc = "loop"
    /\ pc' = "done"
    /\ UNCHANGED <<cache_json, utc_today, use_system_date, fix, nchecked, ec, printed,
                   nfailed, last>>

Next == MainCheckFile \/ MainReturn

Spec == Init /\ [][Next]_vars

(***************************************************************************)
(* Vocabulary of the properties.                                           *)
(***************************************************************************)
Called == last # <<>>

\* The latest call got as far as loading the dataset.
Loaded == Called /\ last[1].raised \in {"none", "EOLPythonError", "UnsupportedFixError"}

PackageSpec == SpecifierSet(last[1].before["requires-python"]).value

SingleGE(specs) == Cardinality(specs) = 1 /\ \A s \in specs : s.operator = ">="

Elems(seq) == {seq[k] : k \in 1..Len(seq)}

OnOrBefore(a, b) ==
    \/ a[1] < b[1]
    \/ a[1] = b[1] /\ a[2] < b[2]
    \/ a[1] = b[1] /\ a[2] = b[2] /\ a[3] <= b[3]

IsEolRelease(r) ==
    r.status = "end-of-life" \/ (use_system_date /\ OnOrBefore(r.end_of_life, utc_today))

GE38 == <<">", "=", "3", ".", "8">>

GE310 == <<">", "=", "3", ".", "1", "0">>

(***************************************************************************)
(* C1: is_eol(r, use_current_date) is true exactly when r's phase is       *)
(* end-of-life, or use_current_date is set and r.end_of_life is on or      *)
(* before today (UTC).                                                     *)
(***************************************************************************)
C1_IsEolContract ==
    Called =>
        \A c \in last[1].is_eol_calls :
            c.result = ( \/ c.release.status = "end-of-life"
                         \/ use_system_date /\ OnOrBefore(c.release.end_of_life, utc_today) )

\* One call answers for an end-of-life release dated after today and for a
\* security release whose EOL date is today.
C1_Witness ==
    /\ Called
    /\ \E c \in last[1].is_eol_calls :
         c.release.status = "end-of-life" /\ ~OnOrBefore(c.release.end_of_life, utc_today)
         /\ c.result
    /\ \E c \in last[1].is_eol_calls :
         c.release.status = "security" /\ c.release.end_of_life = utc_today /\ c.result

(***************************************************************************)
(* C2: the EOL overlap of check_python_support holds exactly the releases  *)
(* of the release set that satisfy the specifier and are EOL, in ascending *)
(* order of version, and is empty iff no covered release is EOL.           *)
(***************************************************************************)
C2_OverlapExactAscending ==
    Loaded =>
        LET rc == last[1].release_cycle
            ov == last[1].eol_supported
            want == {r \in Elems(rc) : Contains(PackageSpec, r.python_ver) /\ IsEolRelease(r)}
        IN  /\ Elems(ov) = want
            /\ Len(ov) = Cardinality(want)
            /\ \A a, b \in 1..Len(ov) :
                 a < b => VersionLE(ov[a].python_ver, ov[b].python_ver)
            /\ (ov = <<>>) <=> (want = {})

\* An overlap of two different versions, next to a release that is left out.
C2_Witness ==
    /\ Loaded
    /\ Len(last[1].eol_supported) = 2
    /\ VersionLT(last[1].eol_supported[1].python_ver, last[1].eol_supported[2].python_ver)
    /\ Len(last[1].release_cycle) = 2

(***************************************************************************)
(* C3: for a single ">=" clause and a non-empty ascending overlap,         *)
(* get_fixed_spec returns ">=M.(m+1)", M.m being the major and minor of    *)
(* the last, highest entry of the overlap; ">=3.8" with 3.8 and 3.9 gives  *)
(* ">=3.10".                                                               *)
(***************************************************************************)
C3_FixedSpecIsNextMinor ==
    (Called /\ last[1].written) =>
        LET ov == last[1].eol_supported
            cutoff == ov[Len(ov)].python_ver
        IN  /\ \A k \in 1..Len(ov) : VersionLE(ov[k].python_ver, cutoff)
            /\ SpecifierSet(last[1].new_spec).value =
                 {[operator |-> ">=", version |-> StripZeros(<<cutoff[1], cutoff[2] + 1>>)]}
            /\ last[1].new_spec =
                 <<">", "=">> \o FormatInt(cutoff[1]) \o <<".">> \o FormatInt(cutoff[2] + 1)
            /\ (last[1].before["requires-python"] = GE38
                /\ Len(ov) = 2 /\ ov[1].python_ver = <<3, 8>> /\ ov[2].python_ver = <<3, 9>>)
               => last[1].new_spec = GE310

C3_Witness ==
    /\ Called /\ last[1].written
    /\ last[1].before["requires-python"] = GE38
    /\ Len(last[1].eol_supported) = 2
    /\ last[1].eol_supported[1].python_ver = <<3, 8>>
    /\ last[1].eol_supported[2].python_ver = <<3, 9>>
    /\ last[1].new_spec = GE310

(***************************************************************************)
(* C4: get_fixed_spec raises UnsupportedFixError for every specifier whose *)
(* number of clauses is not one and for every single clause whose operator *)
(* is not ">=", and returns a specifier for every single ">=" clause with  *)
(* a non-empty overlap.                                                    *)
(***************************************************************************)
FixCalled == Loaded /\ fix /\ last[1].eol_supported # <<>>

C4_UnsupportedFixShapes ==
    FixCalled =>
        /\ (Cardinality(PackageSpec) # 1) => last[1].raised = "UnsupportedFixError"
        /\ (Cardinality(PackageSpec) = 1 /\ \E s \in PackageSpec : s.operator # ">=")
              => last[1].raised = "UnsupportedFixError"
        /\ SingleGE(PackageSpec) =>
              /\ last[1].raised # "UnsupportedFixError"
              /\ last[1].new_spec # NoString

C4_Witness ==
    /\ FixCalled
    /\ Cardinality(PackageSpec) = 1
    /\ \E s \in PackageSpec : s.operator = "=="
    /\ last[1].raised = "UnsupportedFixError"

(***************************************************************************)
(* C5: the specifier produced by the repair excludes every known EOL       *)
(* version: no release of the release set satisfies it and is EOL, and     *)
(* checking the rewritten manifest again, same dataset and date, is Clean  *)
(* and writes nothing.                                                     *)
(***************************************************************************)
C5_RepairExcludesEol ==
    (Called /\ last[1].written) =>
        LET again == check_python_support(last[1].contents, cache_json, use_system_date,
                                          fix, utc_today)
        IN  /\ \A r \in Elems(last[1].release_cycle) :
                 ~(Contains(SpecifierSet(last[1].new_spec).value, r.python_ver)
                   /\ IsEolRelease(r))
            /\ again.raised = "none"
            /\ ~again.written
            /\ again.contents = last[1].contents

\* A repair after which a release of the dataset is still covered.
C5_Witness ==
    /\ Called /\ last[1].written
    /\ \E r \in Elems(last[1].release_cycle) :
         Contains(SpecifierSet(last[1].new_spec).value, r.python_ver)

(***************************************************************************)
(* C6, as stated: whenever a fix is requested and the specifier is not     *)
(* exactly one ">=" clause, the check fails with UnsupportedFixError.      *)
(***************************************************************************)
C6_AsStated ==
    (Loaded /\ fix /\ ~SingleGE(PackageSpec)) => last[1].raised = "UnsupportedFixError"

(***************************************************************************)
(* C6, amended: whenever a fix is requested, the specifier is not exactly  *)
(* one ">=" clause and the EOL overlap is not empty, the check fails with  *)
(* UnsupportedFixError, which is neither a clean return nor the            *)
(* EOLPythonError and leaves main as an exception; with an empty overlap   *)
(* the check returns clean.                                                *)
(***************************************************************************)
C6_UnsupportedFixWhenOverlap ==
    (Loaded /\ fix /\ ~SingleGE(PackageSpec)) =>
        /\ last[1].eol_supported # <<>> =>
              /\ last[1].raised = "UnsupportedFixError"
              /\ ~last[1].written
              /\ pc = "raised"
        /\ last[1].eol_supported = <<>> => last[1].raised = "none"

C6_Witness ==
    /\ Loaded /\ fix
    /\ Cardinality(PackageSpec) = 2
    /\ last[1].raised = "UnsupportedFixError"
    /\ pc = "raised"

(***************************************************************************)
(* C7: in main the error of one file is caught for that file and the later *)
(* files are still checked: no exception of a file leaves the loop.        *)
(***************************************************************************)
C7_ErrorsCaughtPerFile == pc # "raised"

(***************************************************************************)
(* C8: main finishes and returns nonzero iff some file is not clean, 0     *)
(* when all are clean, with one printed line per file that is not clean;   *)
(* the exit code, once nonzero, stays nonzero.                             *)
(***************************************************************************)
C8_ExitCodeAggregates ==
    /\ pc \in {"loop", "done"}
    /\ (ec # 0) <=> (nfailed > 0)
    /\ printed = nfailed

(***************************************************************************)
(* C9, as stated: the loaded release set has one release per source entry  *)
(* and is strictly decreasing by version (so holds no two equal versions). *)
(***************************************************************************)
C9_AsStated ==
    Loaded =>
        LET rc == last[1].release_cycle
        IN  /\ Len(rc) = Len(cache_json)
            /\ \A a, b \in 1..Len(rc) :
                 a < b => VersionLT(rc[b].python_ver, rc[a].python_ver)

(***************************************************************************)
(* C9, amended: the loaded release set has one release per source entry    *)
(* and is descending by version whatever the order of the source, equal    *)
(* versions staying in source order; it is strictly decreasing, without    *)
(* equal versions, when the keys of the source denote different versions.  *)
(***************************************************************************)
KeysDenoteDistinctVersions ==
    \A a, b \in 1..Len(cache_json) :
        a # b => ~VersionEQ(Version(cache_json[a].ver), Version(cache_json[b].ver))

SourceIndex(r) ==
    CHOOSE k \in 1..Len(cache_json) : Version(cache_json[k].ver) = r.python_ver

C9_LoadedDescending ==
    Loaded =>
        LET rc == last[1].release_cycle
        IN  /\ Len(rc) = Len(cache_json)
            /\ \A k \in 1..Len(cache_json) :
                 \E j \in 1..Len(rc) :
                    /\ rc[j].python_ver = Version(cache_json[k].ver)
                    /\ rc[j].status = cache_json[k].status
            /\ \A a, b \in 1..Len(rc) :
                 a < b => /\ VersionLE(rc[b].python_ver, rc[a].python_ver)
                          /\ VersionEQ(rc[a].python_ver, rc[b].python_ver)
                               => SourceIndex(rc[a]) < SourceIndex(rc[b])
            /\ KeysDenoteDistinctVersions =>
                 \A a, b \in 1..Len(rc) :
                    a < b => VersionLT(rc[b].python_ver, rc[a].python_ver)

\* A source in ascending order, 3.9 before 3.10, loaded as 3.10 before 3.9.
C9_Witness ==
    /\ Loaded
    /\ Len(cache_json) = 2
    /\ Version(cache_json[1].ver) = <<3, 9>>
    /\ Version(cache_json[2].ver) = <<3, 10>>
    /\ last[1].release_cycle[1].python_ver = <<3, 10>>

(***************************************************************************)
(* C10: check_python_support writes the manifest only when a fix is        *)
(* requested, the overlap is not empty and the specifier is one ">="       *)
(* clause; otherwise the manifest is unchanged; when written, only         *)
(* project.requires-python changes, to the repaired specifier.             *)
(***************************************************************************)
C10_WriteOnlyOnFix ==
    Called =>
        LET before == last[1].before
            after == last[1].contents
        IN  /\ last[1].written <=>
                 (FixCalled /\ SingleGE(PackageSpec))
            /\ ~last[1].written => after = before
            /\ last[1].written =>
                 /\ DOMAIN after = DOMAIN before
                 /\ \A k \in DOMAIN before \ {"requires-python"} : after[k] = before[k]
                 /\ after["requires-python"] = last[1].new_spec
                 /\ last[1].new_spec # NoString

C10_Witness ==
    /\ Called /\ last[1].written
    /\ last[1].contents # last[1].before
    /\ last[1].contents["name"] = last[1].before["name"]

====
